---- MODULE Spec2Model ----
(***************************************************************************)
(* Model of `gh auth switch` (pkg/cmd/auth/switch/switch.go, switchRun).   *)
(*                                                                         *)
(* One invocation of switchRun is followed statement by statement.  The    *)
(* collaborators (config.AuthConfig, shared.AuthTokenWriteable, the        *)
(* Prompter and IOStreams) are modelled by the answers they may give:      *)
(* every fetch may fail, the prompter returns any index or an error, the   *)
(* write guard answers writeable or not, SwitchUser succeeds or fails.     *)
(* Every call made to a collaborator is logged, so that the properties     *)
(* can talk about which calls happened, in which order, with which         *)
(* arguments.                                                              *)
(***************************************************************************)
EXTENDS Naturals, Sequences, FiniteSets

(* ------------------------------ bounds --------------------------------- *)

\* number of distinct user names that may be stored
NumUsers == 2

\* the hosts that may be stored, and the user names
HostNames == {"github.com", "ghe.io"}
UserNames == <<"alice", "bob", "carol", "dave">>
Users == {UserNames[n] : n \in 1..NumUsers}

(* ------------------------------ state ---------------------------------- *)

VARIABLES
    cfgOK,          \* opts.Config() succeeds
    cfgHosts,       \* AuthConfig.Hosts(): the hosts, in the store's order
    cfgUsers,       \* AuthConfig.UsersForHost(h): the users of h, in order
    cfgActive,      \* AuthConfig.User(h): the active user of h ("" = none)
    snapActive,     \* cfgActive as it was when the invocation began
    optHostname,    \* opts.Hostname ("" = flag not given)
    optUser,        \* opts.User ("" = flag not given)
    canPrompt,      \* opts.IO.CanPrompt()
    pc,             \* position in switchRun
    hostname,       \* local hostname
    username,       \* local username
    knownHosts,     \* local knownHosts
    idx,            \* position of the range loop over knownHosts (1-based)
    hostActiveUser, \* local hostActiveUser of the current iteration
    candidates,     \* local candidates
    retLine,        \* source line of the return statement taken (0 = none)
    retErr,         \* the error returned ("" = nil)
    errOut,         \* what was written to opts.IO.ErrOut
    reads,          \* log of UsersForHost / User calls
    promptCalls,    \* log of Prompter.Select calls
    guardCalls,     \* log of shared.AuthTokenWriteable calls
    switchCalls     \* log of AuthConfig.SwitchUser calls

store == <<cfgOK, cfgHosts, cfgUsers, snapActive>>
opts == <<optHostname, optUser, canPrompt>>
locals == <<hostname, username, knownHosts, idx, hostActiveUser, candidates>>
logs == <<reads, promptCalls, guardCalls, switchCalls>>
vars == <<store, cfgActive, opts, pc, locals, retLine, retErr, errOut, logs>>

(* --------------------------- pure helpers ------------------------------ *)

Range(s) == {s[n] : n \in 1..Len(s)}

\* sequences over S without repetition
DistinctSeqs(S) ==
    {s \in UNION {[1..n -> S] : n \in 0..Cardinality(S)} :
        \A a, b \in 1..Len(s) : a # b => s[a] # s[b]}

\* Contains with the test negated
ContainsNegated(s, x) == ~\E n \in 1..Len(s) : s[n] = x

\* slices.Contains
Contains(s, x) == \E n \in 1..Len(s) : s[n] = x

\* hostUser{host, user, active}
hostUser(host, user, active) == [host |-> host, user |-> user, active |-> active]

\* inactiveOptions keeping the active candidates instead
RECURSIVE activeOptions(_)
activeOptions(c) ==
    IF c = <<>> THEN <<>>
    ELSE IF Head(c).active THEN <<Head(c)>> \o activeOptions(Tail(c))
         ELSE activeOptions(Tail(c))

\* candidates.inactiveOptions()
RECURSIVE inactiveOptions(_)
inactiveOptions(c) ==
    IF c = <<>> THEN <<>>
    ELSE IF ~Head(c).active THEN <<Head(c)>> \o inactiveOptions(Tail(c))
         ELSE inactiveOptions(Tail(c))

\* the host filter left out
skipHostNever(filter, host) == FALSE

\* the loop's first continue: hostname != "" && host != hostname
skipHost(filter, host) == filter # "" /\ host # filter

\* the user filter left out
skipUserNever(filter, user) == FALSE

\* the inner loop's continue: username != "" && user != username
skipUser(filter, user) == filter # "" /\ user # filter

\* the inner range loop over knownUsers: appends one hostUser per kept user
RECURSIVE appendUsers(_, _, _, _, _)
appendUsers(cands, host, knownUsers, filter, activeUser) ==
    IF knownUsers = <<>> THEN cands
    ELSE appendUsers(
            IF skipUser(filter, Head(knownUsers)) THEN cands
            ELSE Append(cands, hostUser(host, Head(knownUsers), Head(knownUsers) = activeUser)),
            host, Tail(knownUsers), filter, activeUser)

\* the label without the " - active" mark
promptLabelPlain(c) == c.user \o " (" \o c.host \o ")"

\* fmt.Sprintf("%s (%s)", c.user, c.host), plus " - active"
promptLabel(c) ==
    LET prompt == c.user \o " (" \o c.host \o ")"
    IN IF c.active THEN prompt \o " - active" ELSE prompt

\* the prompts slice
prompts(cands) == [n \in 1..Len(cands) |-> promptLabel(cands[n])]

\* the chain without its len(candidates) == 1 arm
branchNoSingle(cands, prompt) ==
    IF Len(cands) = 0 THEN "none"
    ELSE IF Len(inactiveOptions(cands)) = 1 THEN "inactive"
    ELSE IF ~prompt THEN "noprompt"
    ELSE "select"

\* the chain without its !opts.IO.CanPrompt() arm
branchNoTerminalCheck(cands, prompt) ==
    IF Len(cands) = 0 THEN "none"
    ELSE IF Len(cands) = 1 THEN "single"
    ELSE IF Len(inactiveOptions(cands)) = 1 THEN "inactive"
    ELSE "select"

\* the if / else-if chain that picks the account
branch(cands, prompt) ==
    IF Len(cands) = 0 THEN "none"
    ELSE IF Len(cands) = 1 THEN "single"
    ELSE IF Len(inactiveOptions(cands)) = 1 THEN "inactive"
    ELSE IF ~prompt THEN "noprompt"
    ELSE "select"

\* the write guard's answer ignored
blockedNever(writeable) == FALSE

\* the write guard's answer read the wrong way round
blockedInverted(writeable) == writeable

\* !writeable
blocked(writeable) == ~writeable

(* ------------------------------ errors --------------------------------- *)

ErrConfig == "config: could not load"
ErrNoHosts == "not logged in to any hosts"
ErrHost(h) == "not logged in to " \o h
ErrUserOnHost(u, h) == "not logged in as " \o u \o " on " \o h
ErrUsersForHost(h) == "config: users of " \o h \o " not readable"
ErrActiveUser(h) == "config: user of " \o h \o " not readable"
ErrNoMatch == "no user accounts matched that criteria"
\* (the source quotes the flags with backquotes, which a TLA+ string cannot hold)
ErrNoPrompt == "unable to determine which user account to switch to, please specify '--hostname' and '--user'"
ErrSelect == "interrupt"
ErrPrompt(e) == "could not prompt: " \o e
SilentError == "SilentError"
ErrSwitch(h, u) == "config: could not switch " \o h \o " to " \o u

\* the answers shared.AuthTokenWriteable may give
GuardAnswers ==
    { [src |-> "oauth_token", writeable |-> TRUE],
      [src |-> "GH_TOKEN", writeable |-> FALSE],
      [src |-> "GH_ENTERPRISE_TOKEN", writeable |-> FALSE] }

MsgOverride(src) == "The value of the " \o src \o " environment variable is being used for authentication.\n"
MsgClear == "To have GitHub CLI manage credentials instead, first clear the value from the environment.\n"
\* cs.SuccessIcon() and cs.Bold(username) of a colour scheme with colours off
\* (the icon is the check mark U+2713, which a TLA+ string cannot hold)
SuccessIcon == "U+2713"
Bold(t) == t
MsgSwitched(h, u) == SuccessIcon \o " Switched active account on " \o h \o " to '" \o Bold(u) \o "'\n"

(* ------------------------------- Init ---------------------------------- *)

Init ==
    /\ cfgOK \in BOOLEAN
    /\ cfgHosts \in DistinctSeqs(HostNames)
    /\ cfgUsers \in [HostNames -> DistinctSeqs(Users)]
    /\ \A h \in HostNames : h \notin Range(cfgHosts) => cfgUsers[h] = <<>>
    /\ cfgActive \in [HostNames -> Users \cup {""}]
    /\ \A h \in HostNames : cfgActive[h] \in Range(cfgUsers[h]) \cup {""}
    /\ snapActive = cfgActive
    /\ optHostname \in HostNames \cup {""}
    /\ optUser \in Users \cup {""}
    /\ canPrompt \in BOOLEAN
    /\ pc = "config"
    /\ hostname = optHostname
    /\ username = optUser
    /\ knownHosts = <<>>
    /\ idx = 1
    /\ hostActiveUser = ""
    /\ candidates = <<>>
    /\ retLine = 0
    /\ retErr = ""
    /\ errOut = <<>>
    /\ reads = <<>>
    /\ promptCalls = <<>>
    /\ guardCalls = <<>>
    /\ switchCalls = <<>>

(* ------------------------------ actions -------------------------------- *)

\* return err (or nil) at the given line
Return(line, err) ==
    /\ pc' = "done"
    /\ retLine' = line
    /\ retErr' = err

Goto(label) ==
    /\ pc' = label
    /\ UNCHANGED <<retLine, retErr>>

\* cfg, err := opts.Config(); knownHosts := authCfg.Hosts()
LoadConfig ==
    /\ pc = "config"
    /\ IF ~cfgOK
       THEN Return(76, ErrConfig) /\ UNCHANGED knownHosts
       ELSE /\ knownHosts' = cfgHosts
            /\ IF Len(cfgHosts) = 0 THEN Return(82, ErrNoHosts) ELSE Goto("hostname")
    /\ UNCHANGED <<store, cfgActive, opts, hostname, username, idx, hostActiveUser,
                   candidates, errOut, logs>>

\* if hostname != "" { if !slices.Contains(knownHosts, hostname) ... }
CheckHostname ==
    /\ pc = "hostname"
    /\ IF hostname = "" THEN Goto("loop")
       ELSE IF ~Contains(knownHosts, hostname) THEN Return(87, ErrHost(hostname))
       ELSE IF username = "" THEN Goto("loop")
       ELSE Goto("user")
    /\ UNCHANGED <<store, cfgActive, opts, locals, errOut, logs>>

\* knownUsers, _ := cfg.Authentication().UsersForHost(hostname): the error is dropped
CheckUser ==
    /\ pc = "user"
    /\ \E ok \in BOOLEAN :
         LET knownUsers == IF ok THEN cfgUsers[hostname] ELSE <<>>
             err == IF ok THEN "" ELSE ErrUsersForHost(hostname)
         IN /\ reads' = Append(reads, [site |-> "check", op |-> "UsersForHost",
                                       host |-> hostname, err |-> err])
            /\ IF ~Contains(knownUsers, username)
               THEN Return(93, ErrUserOnHost(username, hostname))
               ELSE Goto("loop")
    /\ UNCHANGED <<store, cfgActive, opts, locals, errOut, promptCalls, guardCalls, switchCalls>>

\* for _, host := range knownHosts: loop head and the first continue
LoopHead ==
    /\ pc = "loop"
    /\ IF idx > Len(knownHosts) THEN Goto("pick") /\ UNCHANGED idx
       ELSE IF skipHost(hostname, knownHosts[idx]) THEN Goto("loop") /\ idx' = idx + 1
       ELSE Goto("active") /\ UNCHANGED idx
    /\ UNCHANGED <<store, cfgActive, opts, hostname, username, knownHosts, hostActiveUser,
                   candidates, errOut, logs>>

\* hostActiveUser, err := authCfg.User(host)
FetchActiveUser ==
    /\ pc = "active"
    /\ LET host == knownHosts[idx] IN
       \E ok \in BOOLEAN :
         LET err == IF ok THEN "" ELSE ErrActiveUser(host) IN
         /\ reads' = Append(reads, [site |-> "loop", op |-> "User", host |-> host, err |-> err])
         /\ IF ok
            THEN Goto("users") /\ hostActiveUser' = cfgActive[host]
            ELSE Return(106, err) /\ UNCHANGED hostActiveUser
    /\ UNCHANGED <<store, cfgActive, opts, hostname, username, knownHosts, idx, candidates,
                   errOut, promptCalls, guardCalls, switchCalls>>

\* knownUsers, err := cfg.Authentication().UsersForHost(host), and the inner loop
FetchUsers ==
    /\ pc = "users"
    /\ LET host == knownHosts[idx] IN
       \E ok \in BOOLEAN :
         LET err == IF ok THEN "" ELSE ErrUsersForHost(host) IN
         /\ reads' = Append(reads, [site |-> "loop", op |-> "UsersForHost",
                                    host |-> host, err |-> err])
         /\ IF ok
            THEN /\ Goto("loop")
                 /\ idx' = idx + 1
                 /\ candidates' = appendUsers(candidates, host, cfgUsers[host], username,
                                              hostActiveUser)
            ELSE Return(110, err) /\ UNCHANGED <<idx, candidates>>
    /\ UNCHANGED <<store, cfgActive, opts, hostname, username, knownHosts, hostActiveUser,
                   errOut, promptCalls, guardCalls, switchCalls>>

\* inactiveCandidates := candidates.inactiveOptions() and the if / else-if chain
Pick ==
    /\ pc = "pick"
    /\ LET b == branch(candidates, canPrompt)
           inactiveCandidates == inactiveOptions(candidates)
       IN CASE b = "none" ->
                 Return(122, ErrNoMatch) /\ UNCHANGED <<hostname, username>>
            [] b = "single" ->
                 /\ Goto("guard")
                 /\ hostname' = candidates[1].host
                 /\ username' = candidates[1].user
            [] b = "inactive" ->
                 /\ Goto("guard")
                 /\ hostname' = inactiveCandidates[1].host
                 /\ username' = inactiveCandidates[1].user
            [] b = "noprompt" ->
                 Return(130, ErrNoPrompt) /\ UNCHANGED <<hostname, username>>
            [] OTHER ->
                 Goto("select") /\ UNCHANGED <<hostname, username>>
    /\ UNCHANGED <<store, cfgActive, opts, knownHosts, idx, hostActiveUser, candidates,
                   errOut, logs>>

\* selected, err := opts.Prompter.Select(..., prompts)
Select ==
    /\ pc = "select"
    /\ \/ \E selected \in 0..(Len(candidates) - 1) :
            /\ promptCalls' = Append(promptCalls, [options |-> prompts(candidates),
                                                   selected |-> selected, err |-> ""])
            /\ hostname' = candidates[selected + 1].host
            /\ username' = candidates[selected + 1].user
            /\ Goto("guard")
       \/ /\ promptCalls' = Append(promptCalls, [options |-> prompts(candidates),
                                                 selected |-> 0, err |-> ErrSelect])
          /\ Return(143, ErrPrompt(ErrSelect))
          /\ UNCHANGED <<hostname, username>>
    /\ UNCHANGED <<store, cfgActive, opts, knownHosts, idx, hostActiveUser, candidates,
                   errOut, reads, guardCalls, switchCalls>>

\* if src, writeable := shared.AuthTokenWriteable(authCfg, hostname); !writeable
WriteGuard ==
    /\ pc = "guard"
    /\ \E g \in GuardAnswers :
         /\ guardCalls' = Append(guardCalls, [host |-> hostname, src |-> g.src,
                                              writeable |-> g.writeable])
         /\ IF blocked(g.writeable)
            THEN /\ errOut' = errOut \o <<MsgOverride(g.src), MsgClear>>
                 /\ Return(152, SilentError)
            ELSE Goto("switch") /\ UNCHANGED errOut
    /\ UNCHANGED <<store, cfgActive, opts, locals, reads, promptCalls, switchCalls>>

\* err = authCfg.SwitchUser(hostname, username), and the confirmation line
SwitchUser ==
    /\ pc = "switch"
    /\ \E ok \in BOOLEAN :
         LET err == IF ok THEN "" ELSE ErrSwitch(hostname, username) IN
         /\ switchCalls' = Append(switchCalls, [host |-> hostname, user |-> username,
                                                err |-> err])
         /\ IF ok
            THEN /\ cfgActive' = [cfgActive EXCEPT ![hostname] = username]
                 /\ errOut' = Append(errOut, MsgSwitched(hostname, username))
                 /\ Return(164, "")
            ELSE /\ UNCHANGED <<cfgActive, errOut>>
                 /\ Return(157, err)
    /\ UNCHANGED <<store, opts, locals, reads, promptCalls, guardCalls>>

Next ==
    \/ LoadConfig
    \/ CheckHostname
    \/ CheckUser
    \/ LoopHead
    \/ FetchActiveUser
    \/ FetchUsers
    \/ Pick
    \/ Select
    \/ WriteGuard
    \/ SwitchUser

Spec == Init /\ [][Next]_vars

(* ------------------- the Candidate Set, from the store ------------------ *)
(* What the Candidate Set must be, computed from the store and the flags   *)
(* alone, independently of the loop of switchRun.                          *)

Done == pc = "done"

\* the loop over knownHosts has run to its end
Built ==
    \/ pc \in {"pick", "select", "guard", "switch"}
    \/ Done /\ retLine \in {122, 130, 143, 152, 157, 164}

\* a (host, user) pair has been picked
Resolved ==
    \/ pc \in {"guard", "switch"}
    \/ Done /\ retLine \in {152, 157, 164}

Wanted(h, u) ==
    /\ optHostname = "" \/ h = optHostname
    /\ optUser = "" \/ u = optUser

EntriesOf(h) ==
    LET kept == SelectSeq(cfgUsers[h], LAMBDA u : Wanted(h, u))
    IN [n \in 1..Len(kept) |-> [host |-> h, user |-> kept[n], active |-> kept[n] = snapActive[h]]]

RECURSIVE EntriesOfAll(_)
EntriesOfAll(hs) ==
    IF hs = <<>> THEN <<>> ELSE EntriesOf(Head(hs)) \o EntriesOfAll(Tail(hs))

CandidateSet == EntriesOfAll(cfgHosts)

InactiveOf(cs) == SelectSeq(cs, LAMBDA c : ~c.active)

Inactive == InactiveOf(CandidateSet)

AmbiguousSet(cs) == Len(cs) >= 2 /\ Len(InactiveOf(cs)) # 1

Ambiguous == AmbiguousSet(CandidateSet)

LabelOf(c) == c.user \o " (" \o c.host \o ")" \o (IF c.active THEN " - active" ELSE "")

NoCollaboratorCalled == promptCalls = <<>> /\ guardCalls = <<>> /\ switchCalls = <<>>

AllReadsSucceeded == \A n \in 1..Len(reads) : reads[n].err = ""

StoreReadErrors == {ErrUsersForHost(h) : h \in HostNames} \cup {ErrActiveUser(h) : h \in HostNames}

(* ------------------------------- C1 ------------------------------------ *)

\* C1: when the Candidate Set has two or more elements of which exactly one is
\* inactive, the account picked is that inactive one and the prompter is never
\* called, whether or not the session can prompt; with exactly one candidate the
\* account picked is that candidate, whatever its active flag.
C1_SingleInactiveShortcut ==
    Built =>
        LET cs == CandidateSet
            inactive == InactiveOf(cs)
        IN /\ Len(cs) >= 2 /\ Len(inactive) = 1 =>
                /\ pc # "select" /\ promptCalls = <<>>
                /\ Done => Resolved
                /\ Resolved => hostname = inactive[1].host /\ username = inactive[1].user
           /\ Len(cs) = 1 /\ Resolved =>
                hostname = cs[1].host /\ username = cs[1].user

C1_Witness ==
    /\ Done /\ retLine = 164
    /\ ~canPrompt
    /\ Len(CandidateSet) >= 2 /\ Len(Inactive) = 1
    /\ switchCalls = <<[host |-> Inactive[1].host, user |-> Inactive[1].user, err |-> ""]>>

(* ------------------------------- C2 ------------------------------------ *)

\* the fragments around the source name in a message that names it
SourceFrames ==
    { <<"", "">>,
      <<"The value of the ", " environment variable is being used for authentication.\n">> }

Names(text, src) == \E f \in SourceFrames : text = f[1] \o src \o f[2]

GuardBlocked == guardCalls # <<>> /\ ~guardCalls[Len(guardCalls)].writeable

\* C2 as claimed: when the write guard answers not writeable, SwitchUser is not
\* called and the error returned names the source the guard reported.
C2_ReturnedErrorNamesSource ==
    Done /\ GuardBlocked =>
        /\ switchCalls = <<>>
        /\ Names(retErr, guardCalls[Len(guardCalls)].src)

\* C2: when the write guard answers not writeable, SwitchUser is not called, the
\* error returned is cmdutil.SilentError, which names no source, and the source
\* the guard reported is named in the first line written to ErrOut.
C2_BlockedIsSilentAndSourceOnErrOut ==
    /\ GuardBlocked => switchCalls = <<>> /\ pc # "switch"
    /\ Done /\ GuardBlocked =>
         /\ retErr = SilentError
         /\ cfgActive = snapActive
         /\ Len(errOut) = 2
         /\ Names(errOut[1], guardCalls[Len(guardCalls)].src)
    /\ Done /\ retErr = SilentError => GuardBlocked

C2_Witness ==
    /\ Done /\ retErr = SilentError
    /\ GuardBlocked /\ guardCalls[1].src = "GH_ENTERPRISE_TOKEN"
    /\ switchCalls = <<>>
    /\ errOut[1] = MsgOverride("GH_ENTERPRISE_TOKEN")

(* ------------------------------- C3 ------------------------------------ *)

\* C3 as claimed: if any UsersForHost or User call of the invocation failed, the
\* pre-check's included, the invocation returns that very error, and neither
\* the prompter, nor the write guard, nor SwitchUser is called.
C3_FetchErrorPropagated ==
    Done =>
        \A n \in 1..Len(reads) :
            reads[n].err # "" =>
                /\ retErr = reads[n].err
                /\ n = Len(reads)
                /\ NoCollaboratorCalled

(* ------------------------------- C4 ------------------------------------ *)

\* C4: when the Candidate Set has exactly one element, active or not, the
\* prompter is never called, the write guard is called exactly once, for that
\* element's host, and, if it answers writeable, SwitchUser is called exactly once
\* with that host and user, and the invocation succeeds if SwitchUser does.
C4_SingleCandidate ==
    Built =>
        LET cs == CandidateSet
            only == cs[1]
        IN Len(cs) = 1 =>
             /\ pc # "select" /\ promptCalls = <<>>
             /\ Len(guardCalls) <= 1 /\ Len(switchCalls) <= 1
             /\ Done =>
                  /\ Len(guardCalls) = 1 /\ guardCalls[1].host = only.host
                  /\ guardCalls[1].writeable =>
                       /\ Len(switchCalls) = 1
                       /\ switchCalls[1].host = only.host /\ switchCalls[1].user = only.user
                       /\ retErr = switchCalls[1].err
                       /\ switchCalls[1].err = "" => cfgActive[only.host] = only.user

C4_Witness ==
    /\ Done /\ retErr = ""
    /\ Len(CandidateSet) = 1 /\ CandidateSet[1].active
    /\ optHostname = "" /\ optUser # ""
    /\ Len(guardCalls) = 1
    /\ switchCalls = <<[host |-> CandidateSet[1].host, user |-> snapActive[CandidateSet[1].host],
                        err |-> ""]>>

(* ------------------------------- C5 ------------------------------------ *)

\* C5: the prompter is called at most once, and only in a session that can
\* prompt with two or more candidates of which none or several are inactive;
\* there it is called once the choice is reached, with one option per candidate
\* in the order of the Candidate Set (hosts in the store's order, then each
\* host's users in order), labelled "<user> (<host>)" plus " - active" for the
\* active ones, and the account picked is the candidate at the index returned.
C5_Prompt ==
    LET cs == CandidateSet IN
    /\ Len(promptCalls) <= 1
    /\ promptCalls # <<>> \/ pc = "select" => Built /\ canPrompt /\ AmbiguousSet(cs)
    /\ Built /\ canPrompt /\ pc \in {"guard", "switch", "done"} /\ AmbiguousSet(cs) =>
         /\ Len(promptCalls) = 1
         /\ promptCalls[1].options = [n \in 1..Len(cs) |-> LabelOf(cs[n])]
         /\ promptCalls[1].err = "" =>
              /\ promptCalls[1].selected \in 0..(Len(cs) - 1)
              /\ Resolved
              /\ hostname = cs[promptCalls[1].selected + 1].host
              /\ username = cs[promptCalls[1].selected + 1].user
         /\ promptCalls[1].err # "" =>
              Done /\ retErr = ErrPrompt(promptCalls[1].err) /\ guardCalls = <<>>

C5_Witness ==
    /\ Done /\ retErr = ""
    /\ Len(cfgHosts) = 2
    /\ promptCalls # <<>>
    /\ promptCalls[1].options =
         << "alice (" \o cfgHosts[1] \o ") - active", "bob (" \o cfgHosts[1] \o ")",
            "bob (" \o cfgHosts[2] \o ")" , "alice (" \o cfgHosts[2] \o ")" >>
    /\ promptCalls[1].selected = 2
    /\ switchCalls = <<[host |-> cfgHosts[2], user |-> "bob", err |-> ""]>>

(* ------------------------------- C6 ------------------------------------ *)

\* C6: in a session that cannot prompt, with two or more candidates of which
\* none or several are inactive, the invocation fails with the "unable to
\* determine" error and calls neither the prompter, nor the write guard, nor
\* SwitchUser; and that error is returned in no other case.
C6_NonInteractiveAmbiguous ==
    /\ Built /\ ~canPrompt =>
         (Ambiguous =>
            /\ pc \in {"pick", "done"}
            /\ NoCollaboratorCalled
            /\ Done => retErr = ErrNoPrompt /\ cfgActive = snapActive)
    /\ Done /\ retErr = ErrNoPrompt => Built /\ ~canPrompt /\ Ambiguous

C6_Witness ==
    /\ Done /\ retErr = ErrNoPrompt
    /\ ~canPrompt
    /\ Len(CandidateSet) = 2 /\ Len(Inactive) = 0
    /\ NoCollaboratorCalled

(* ------------------------------- C7 ------------------------------------ *)

HostsRead == pc # "config" /\ retLine # 76

\* C7: once the hosts are read, with no host stored the invocation fails with
\* "not logged in to any hosts"; with some host stored and --hostname naming a
\* host that is not stored it fails with "not logged in to <hostname>", whatever
\* --user is; in both cases no UsersForHost or User call is made and neither the
\* prompter, nor the write guard, nor SwitchUser is called.
C7_PreValidation ==
    /\ HostsRead /\ cfgHosts = <<>> =>
         Done /\ retErr = ErrNoHosts /\ reads = <<>> /\ NoCollaboratorCalled
    /\ /\ HostsRead /\ cfgHosts # <<>>
       /\ optHostname # "" /\ optHostname \notin Range(cfgHosts)
       => /\ pc \in {"hostname", "done"}
          /\ reads = <<>> /\ NoCollaboratorCalled
          /\ Done => retErr = ErrHost(optHostname)

C7_Witness ==
    /\ Done /\ retErr = ErrHost("ghe.io")
    /\ cfgHosts = <<"github.com">>
    /\ optUser \in Range(cfgUsers["github.com"])
    /\ reads = <<>> /\ NoCollaboratorCalled

(* ------------------------------- C8 ------------------------------------ *)

\* C8: when every read succeeds: with --hostname naming a stored host and --user
\* given, the invocation fails with "not logged in as <user> on <hostname>"
\* exactly when the user is not among the users of that host, and never with
\* "no user accounts matched"; with --user alone no pre-check read is made and a
\* user stored on no host gives "no user accounts matched".
C8_UserPreCheck ==
    Done /\ HostsRead /\ AllReadsSucceeded =>
        /\ optHostname # "" /\ optUser # "" /\ optHostname \in Range(cfgHosts) =>
             /\ retErr = ErrUserOnHost(optUser, optHostname)
                  <=> optUser \notin Range(cfgUsers[optHostname])
             /\ retErr # ErrNoMatch
             /\ reads # <<>> /\ reads[1].site = "check" /\ reads[1].host = optHostname
        /\ optHostname = "" /\ optUser # "" /\ cfgHosts # <<>> =>
             /\ \A n \in 1..Len(reads) : reads[n].site = "loop"
             /\ (\A h \in Range(cfgHosts) : optUser \notin Range(cfgUsers[h])) <=> retErr = ErrNoMatch
             /\ \A h \in HostNames : retErr # ErrUserOnHost(optUser, h)

C8_WitnessUserOnly ==
    /\ Done /\ AllReadsSucceeded
    /\ optHostname = "" /\ optUser = "bob"
    /\ Len(cfgHosts) = 2 /\ cfgUsers[cfgHosts[1]] = <<"alice">> /\ cfgUsers[cfgHosts[2]] = <<"alice">>
    /\ retErr = ErrNoMatch

C8_Witness ==
    /\ Done /\ AllReadsSucceeded
    /\ optHostname = "github.com" /\ optUser = "bob"
    /\ cfgUsers["github.com"] = <<"alice">>
    /\ cfgHosts = <<"ghe.io", "github.com">> /\ cfgUsers["ghe.io"] = <<"bob">>
    /\ reads = <<[site |-> "check", op |-> "UsersForHost", host |-> "github.com", err |-> ""]>>
    /\ retErr = ErrUserOnHost("bob", "github.com")

(* ------------------------------- C9 ------------------------------------ *)

\* the errors of the steps before the write guard
EarlyErrors ==
    {ErrNoHosts, ErrNoMatch, ErrNoPrompt, ErrPrompt(ErrSelect)}
        \cup {ErrHost(h) : h \in HostNames}
        \cup {ErrUserOnHost(u, h) : u \in Users, h \in HostNames}
        \cup StoreReadErrors

\* C9: SwitchUser is called at most once, and only after the write guard was
\* asked about the same host and answered writeable; the active user of every
\* host is what it was at the start unless that one call succeeded; every
\* failure before the write guard leaves it unchanged with SwitchUser never
\* called, and a failed SwitchUser is returned, not retried.
C9_AtMostOneCommit ==
    /\ Len(switchCalls) <= 1 /\ Len(guardCalls) <= 1
    /\ switchCalls # <<>> =>
         /\ Len(guardCalls) = 1
         /\ guardCalls[1].host = switchCalls[1].host
         /\ guardCalls[1].writeable
         /\ Done /\ retErr = switchCalls[1].err
    /\ IF switchCalls # <<>> /\ switchCalls[1].err = ""
       THEN cfgActive = [snapActive EXCEPT ![switchCalls[1].host] = switchCalls[1].user]
       ELSE cfgActive = snapActive
    /\ Done /\ retErr \in EarlyErrors => switchCalls = <<>> /\ guardCalls = <<>>

C9_Witness ==
    /\ Done /\ Len(switchCalls) = 1
    /\ switchCalls[1].err # "" /\ retErr = switchCalls[1].err
    /\ promptCalls # <<>>
    /\ cfgActive = snapActive

(* ------------------------------- C10 ----------------------------------- *)

\* C10: at every point, every element of candidates has the host --hostname
\* names, if given, and the user --user names, if given; its host is stored and
\* its user is one of that host's users; its active flag says whether its user
\* was the host's active user; and the pair given to SwitchUser satisfies both
\* flags and is a stored pair.
C10_CandidatesMatchFilters ==
    /\ \A n \in 1..Len(candidates) :
         LET c == candidates[n] IN
         /\ optHostname # "" => c.host = optHostname
         /\ optUser # "" => c.user = optUser
         /\ c.host \in Range(cfgHosts)
         /\ c.user \in Range(cfgUsers[c.host])
         /\ c.active = (c.user = snapActive[c.host])
    /\ \A n \in 1..Len(switchCalls) :
         LET c == switchCalls[n] IN
         /\ optHostname # "" => c.host = optHostname
         /\ optUser # "" => c.user = optUser
         /\ c.host \in Range(cfgHosts)
         /\ c.user \in Range(cfgUsers[c.host])

C10_Witness ==
    /\ Done /\ Len(switchCalls) = 1
    /\ optHostname = "ghe.io" /\ optUser = ""
    /\ Len(cfgHosts) = 2 /\ Len(cfgUsers["github.com"]) = 2
    /\ Len(candidates) = 2
    /\ candidates[2].active

====
